---- MODULE Spec2Model ----
(***************************************************************************)
(* Model of the orchestrator-server task ledger.                           *)
(*                                                                         *)
(* create_task, get_next_task and complete_task are the tool handlers of   *)
(* src/src/index.ts; update_task and delete_task exist only as the methods *)
(* TestInstance.updateTask / TestInstance.deleteTask of                    *)
(* src/test/test-instance.js and are modelled from there.                  *)
(*                                                                         *)
(* A task record is a TLA+ record whose optional fields (assignedTo,       *)
(* result, dependencies) are absent from its domain when the JavaScript    *)
(* property is undefined.  The JavaScript object `tasks` is the pair       *)
(* (tasks, keys): the mapping and its own-property enumeration order.      *)
(***************************************************************************)
EXTENDS Integers, Sequences, FiniteSets, TLC

\* ---------------------------------------------------------------- bounds
MaxDeps == 2          \* longest dependency list a caller passes
MaxEdits == 4         \* successful create, update and delete requests in one run
MaxStack == 5         \* nested calls of checkCycle the call stack holds

\* ---------------------------------------------------------------- inputs
\* Task identifiers callers choose.  "1" is a canonical array index, which
\* a JavaScript object enumerates before its string keys.
TaskIds == {"a", "b", "1"}
IndexValue == [id \in {"1"} |-> 1]

\* The callers of one run: the task ids, instance ids, result strings and
\* new descriptions they use.  One population exercises the dependency
\* graph (three tasks, one worker), the other exercises ownership (two
\* tasks, two workers with two results, description edits).
Populations ==
    { [ids |-> {"a", "b", "1"}, instances |-> {"w1"}, results |-> {"r1"},
       descriptions |-> {}],
      [ids |-> {"a", "1"}, instances |-> {"w1", "w2"}, results |-> {"r1", "r2"},
       descriptions |-> {"", "d2"}] }

\* The callers of a run on a disk that may refuse writes: two tasks, one
\* worker.
FaultPopulations ==
    { [ids |-> {"a", "b"}, instances |-> {"w1"}, results |-> {"r1"},
       descriptions |-> {}] }

\* The callers of a run that is followed to its end: two tasks, two workers.
LiveIds == {"a", "b"}
LivePopulations ==
    { [ids |-> LiveIds, instances |-> {"w1", "w2"}, results |-> {"r1"},
       descriptions |-> {}] }

AllPopulations == Populations \cup FaultPopulations \cup LivePopulations

Descriptions == {"d1"}             \* descriptions given to create_task

RECURSIVE SeqsUpTo(_, _)
SeqsUpTo(S, n) ==
    IF n = 0 THEN {<<>>}
    ELSE LET shorter == SeqsUpTo(S, n - 1)
         IN  shorter \cup {Append(s, x) : s \in {t \in shorter : Len(t) = n - 1}, x \in S}

VARIABLES
    tasks,      \* index.ts:31  let tasks: { [id: string]: Task }
    keys,       \* enumeration order of the own keys of `tasks`
    file,       \* content of TASKS_FILE (index.ts:19)
    writable,   \* whether writeFileSync on TASKS_FILE succeeds
    last,       \* the last request served and its response
    nEdits,     \* number of successful create, update and delete requests so far
    callers,    \* the population of callers of this run
    created     \* history: the ids of the stored tasks, in the order of their creation

vars == <<tasks, keys, file, writable, last, nEdits, callers, created>>

\* The dependency lists a population passes: up to MaxDeps of its ids, in
\* any order, repetitions included.
DependencyListsOf == [p \in AllPopulations |-> SeqsUpTo(p.ids, MaxDeps)]

Has(r, f) == f \in DOMAIN r

\* ------------------------------------------------------- request payloads
\* The arguments of a request are a record; an optional argument the caller
\* omits is absent from the record.
CreateArgsOf ==
    [p \in AllPopulations |->
        {[id |-> i, description |-> d] : i \in p.ids, d \in Descriptions}
        \cup {[id |-> i, description |-> d, dependencies |-> ds] :
                i \in p.ids, d \in Descriptions, ds \in DependencyListsOf[p]}]

UpdateArgsOf ==
    [p \in AllPopulations |->
        {[task_id |-> i] : i \in p.ids}
        \cup {[task_id |-> i, description |-> d] : i \in p.ids, d \in p.descriptions}
        \cup {[task_id |-> i, dependencies |-> ds] : i \in p.ids, ds \in DependencyListsOf[p]}
        \cup {[task_id |-> i, description |-> d, dependencies |-> ds] :
                i \in p.ids, d \in p.descriptions, ds \in DependencyListsOf[p]}]

DeleteArgsOf == [p \in AllPopulations |-> {[task_id |-> i] : i \in p.ids}]

GetNextArgsOf == [p \in AllPopulations |-> {[instance_id |-> w] : w \in p.instances}]

CompleteArgsOf ==
    [p \in AllPopulations |->
        {[task_id |-> i, instance_id |-> w, result |-> r] :
            i \in p.ids, w \in p.instances, r \in p.results}]

CreateArgs == CreateArgsOf[callers]
UpdateArgs == UpdateArgsOf[callers]
DeleteArgs == DeleteArgsOf[callers]
GetNextArgs == GetNextArgsOf[callers]
CompleteArgs == CompleteArgsOf[callers]

\* ------------------------------------------------------------- responses
None == "-"
NoTasks == "no_tasks"

\* A handler that returns normally.
Reply(op, task_id, instance_id, ret, unlocked) ==
    [op |-> op, task_id |-> task_id, instance_id |-> instance_id,
     error |-> "none", at |-> 0, ret |-> ret, unlocked |-> unlocked]

\* A validation that throws nothing.
NoThrow == [error |-> "none"]

\* A handler that throws; `at` is the position in the dependency list of the
\* id the validation loop rejected (0 when the error is not about the list).
Throw(op, task_id, instance_id, error, at) ==
    [op |-> op, task_id |-> task_id, instance_id |-> instance_id,
     error |-> error, at |-> at, ret |-> None, unlocked |-> <<>>]

\* ------------------------------------------------- the JavaScript object
\* tasks[id] is truthy
Exists(id) == id \in DOMAIN tasks

IsArrayIndex(id) == id \in DOMAIN IndexValue

\* Position of a key in the own-property order after `tasks[id] = ...`:
\* an existing key keeps its place, array-index keys come first in
\* ascending numeric order, other keys follow in insertion order.
InsertKey(ks, id) ==
    IF \E i \in 1..Len(ks) : ks[i] = id THEN ks
    ELSE IF IsArrayIndex(id)
         THEN LET Smaller(k) == IsArrayIndex(k) /\ IndexValue[k] < IndexValue[id]
                  NotSmaller(k) == ~Smaller(k)
              IN  SelectSeq(ks, Smaller) \o <<id>> \o SelectSeq(ks, NotSmaller)
         ELSE Append(ks, id)

\* delete tasks[id]
RemoveKey(ks, id) == LET Other(k) == k # id IN SelectSeq(ks, Other)

\* JSON.stringify(tasks, null, 2): the members in enumeration order.
Stringify(ts, ks) == [i \in 1..Len(ks) |-> <<ks[i], ts[ks[i]]>>]

\* saveTasks(): the content of the file after the call.  A failed write is
\* caught and logged, and the file keeps its content.
saveTasks(ts, ks) == IF writable THEN Stringify(ts, ks) ELSE file

\* ------------------------------------------------------ dependency graph
\* Mutant of EveryDependencyCompleted: only the first dependency is tested.
EveryDependencyCompleted_FirstOnly(task, ts) ==
    \A i \in 1..Len(task.dependencies) :
        i = 1 => /\ task.dependencies[i] \in DOMAIN ts
                 /\ ts[task.dependencies[i]].status = "completed"

\* task.dependencies.every(depId => tasks[depId]?.status === 'completed')
EveryDependencyCompleted(task, ts) ==
    \A i \in 1..Len(task.dependencies) :
        /\ task.dependencies[i] \in DOMAIN ts
        /\ ts[task.dependencies[i]].status = "completed"

\* Mutant of IsAvailable: a task that has dependencies is never available.
IsAvailable_OnlyWithoutDependencies(task, ts) ==
    IF task.status # "pending" THEN FALSE
    ELSE IF ~Has(task, "dependencies") THEN TRUE
    ELSE Len(task.dependencies) = 0

\* Mutant of IsAvailable: the status test is dropped.
IsAvailable_AnyStatus(task, ts) ==
    IF ~Has(task, "dependencies") THEN TRUE
    ELSE EveryDependencyCompleted(task, ts)

\* Mutant of IsAvailable: the dependencies are not looked at.
IsAvailable_IgnoresDependencies(task, ts) == task.status = "pending"

\* the predicate of Object.values(tasks).find(...) in get_next_task
IsAvailable(task, ts) ==
    IF task.status # "pending" THEN FALSE
    ELSE IF ~Has(task, "dependencies") THEN TRUE
    ELSE EveryDependencyCompleted(task, ts)

\* Object.values(tasks).find(pred): the first key whose task is available,
\* or None.
RECURSIVE FindFrom(_, _, _)
FindFrom(ts, ks, i) ==
    IF i > Len(ks) THEN None
    ELSE IF IsAvailable(ts[ks[i]], ts) THEN ks[i]
    ELSE FindFrom(ts, ks, i + 1)

FindAvailable(ts, ks) == FindFrom(ts, ks, 1)

\* t.dependencies?.includes(task_id)
Includes(task, task_id) ==
    /\ Has(task, "dependencies")
    /\ \E i \in 1..Len(task.dependencies) : task.dependencies[i] = task_id

\* Mutant of IsUnlocked: the other dependencies are not looked at.
IsUnlocked_ListsOnly(t, task_id, ts) ==
    /\ t.status = "pending"
    /\ Includes(t, task_id)

\* the predicate of Object.values(tasks).filter(...) in complete_task
IsUnlocked(t, task_id, ts) ==
    /\ t.status = "pending"
    /\ Includes(t, task_id)
    /\ EveryDependencyCompleted(t, ts)

\* unlockedTasks, as the ids of the filtered tasks in enumeration order
UnlockedTasks(task_id, ts, ks) ==
    LET Keep(k) == IsUnlocked(ts[k], task_id, ts) IN SelectSeq(ks, Keep)

\* (this.tasks[id]?.dependencies || [])
DependenciesOrEmpty(id) ==
    IF Exists(id) /\ Has(tasks[id], "dependencies") THEN tasks[id].dependencies ELSE <<>>

\* Mutant of VisitedAdd: the id is not remembered.
VisitedAdd_Forgets(visited, id) == visited

\* visited.add(id)
VisitedAdd(visited, id) == visited \cup {id}

\* checkCycle of updateTask: a depth-first walk over the stored dependencies
\* that shares one `visited` set across the whole update call and reports a
\* cycle when it meets an id it has already visited.  `some` stops at the
\* first dependency that reports a cycle.  `expanded` lists the ids whose
\* dependencies the walk went through, in order; `depth` counts the nested
\* calls, and a call nested deeper than the call stack holds throws a
\* RangeError (`overflow`), which nothing in updateTask catches.
RECURSIVE checkCycle(_, _, _), someCheckCycle(_, _, _, _)
checkCycle(id, visited, depth) ==
    IF depth > MaxStack
    THEN [found |-> FALSE, overflow |-> TRUE, visited |-> visited, expanded |-> <<>>]
    ELSE IF id \in visited
    THEN [found |-> TRUE, overflow |-> FALSE, visited |-> visited, expanded |-> <<>>]
    ELSE LET r == someCheckCycle(DependenciesOrEmpty(id), 1, VisitedAdd(visited, id),
                                 depth + 1)
         IN  [r EXCEPT !.expanded = <<id>> \o @]

someCheckCycle(deps, i, visited, depth) ==
    IF i > Len(deps)
    THEN [found |-> FALSE, overflow |-> FALSE, visited |-> visited, expanded |-> <<>>]
    ELSE LET r == checkCycle(deps[i], visited, depth)
         IN  IF r.found \/ r.overflow THEN r
             ELSE LET rest == someCheckCycle(deps, i + 1, r.visited, depth)
                  IN  [rest EXCEPT !.expanded = r.expanded \o @]

\* Mutant of IsSelf: the self-dependency test is dropped.
IsSelf_Never(depId, taskId) == FALSE

\* depId === taskId
IsSelf(depId, taskId) == depId = taskId

\* the loop `for (const depId of dependencies)` of updateTask, from its
\* k-th iteration on: the first error it throws, or "none".
RECURSIVE validateDependencies(_, _, _, _)
validateDependencies(taskId, deps, k, visited) ==
    IF k > Len(deps) THEN [error |-> "none", at |-> 0, expanded |-> <<>>]
    ELSE IF ~Exists(deps[k])
    THEN [error |-> "DependencyNotFound", at |-> k, expanded |-> <<>>]
    ELSE IF IsSelf(deps[k], taskId)
    THEN [error |-> "CycleDetected", at |-> k, expanded |-> <<>>]
    ELSE LET r == checkCycle(deps[k], visited, 1)
         IN  IF r.overflow
             THEN [error |-> "RangeError", at |-> k, expanded |-> r.expanded]
             ELSE IF r.found
             THEN [error |-> "CycleDetected", at |-> k, expanded |-> r.expanded]
             ELSE LET rest == validateDependencies(taskId, deps, k + 1, r.visited)
                  IN  [rest EXCEPT !.expanded = r.expanded \o @]

\* Mutant of firstMissing: the loop starts at the second id of the list.
firstMissing_SkipsFirst(deps, k) ==
    LET missing == {i \in 2..Len(deps) : ~Exists(deps[i])}
    IN  IF missing = {} THEN 0 ELSE CHOOSE i \in missing : \A j \in missing : i <= j

\* Mutant of firstMissing: only the first id of the list is looked up.
firstMissing_HeadOnly(deps, k) ==
    IF Len(deps) >= 1 /\ ~Exists(deps[1]) THEN 1 ELSE 0

\* the loop `for (const depId of dependencies)` of create_task: the position
\* of the first id that is not in the store, or 0.
RECURSIVE firstMissing(_, _)
firstMissing(deps, k) ==
    IF k > Len(deps) THEN 0
    ELSE IF ~Exists(deps[k]) THEN k
    ELSE firstMissing(deps, k + 1)

\* Mutant of NotAssignedTo: a task without an assignee passes the test.
NotAssignedTo_OnlyWhenAssigned(task, instance_id) ==
    Has(task, "assignedTo") /\ task.assignedTo # instance_id

\* task.assignedTo !== instance_id
NotAssignedTo(task, instance_id) ==
    ~(Has(task, "assignedTo") /\ task.assignedTo = instance_id)

\* Mutant of dependentTasks: only pending dependents count.
dependentTasks_PendingOnly(taskId) ==
    LET Dependent(k) == tasks[k].status = "pending" /\ Includes(tasks[k], taskId)
    IN  SelectSeq(keys, Dependent)

\* Object.values(this.tasks).filter(t => t.dependencies?.includes(taskId))
dependentTasks(taskId) ==
    LET Dependent(k) == Includes(tasks[k], taskId) IN SelectSeq(keys, Dependent)

\* -------------------------------------------------------------- initial
\* The state after main() ran loadTasks() with no tasks file present: the
\* store is empty and saveTasks() has created the file.
Init ==
    /\ tasks = <<>>
    /\ keys = <<>>
    /\ writable = TRUE
    /\ file = <<>>
    /\ last = Reply("main", None, None, None, <<>>)
    /\ nEdits = 0
    /\ callers \in Populations
    /\ created = <<>>

\* A handler that throws before it mutates anything.
Rejected(response) ==
    /\ last' = response
    /\ UNCHANGED <<tasks, keys, file, writable, nEdits, callers, created>>

\* The creation order once the store has the keys ks: the ids still stored
\* keep their order, an id that is new to the store comes last.
CreationOrder(ks) ==
    LET Stored(k) == \E i \in 1..Len(ks) : ks[i] = k
        New(k) == \A i \in 1..Len(created) : created[i] # k
    IN  SelectSeq(created, Stored) \o SelectSeq(ks, New)

\* A handler that mutated the store, called saveTasks() and returned.
Committed(ts, ks, response) ==
    /\ tasks' = ts
    /\ keys' = ks
    /\ file' = saveTasks(ts, ks)
    /\ last' = response
    /\ created' = CreationOrder(ks)
    /\ UNCHANGED <<writable, callers>>

\* A successful create, update or delete: it reshapes the graph, and a run
\* has at most MaxEdits of them.
Edited(ts, ks, response) ==
    /\ nEdits < MaxEdits
    /\ Committed(ts, ks, response)
    /\ nEdits' = nEdits + 1

\* ------------------------------------------------------------ operations
\* Each handler is its validation (what it throws for a request, NoThrow when
\* it throws nothing) followed by its effect.

\* Mutant of create_taskThrows: an id that is already stored is accepted.
create_taskThrows_NoDuplicateCheck(args) ==
    LET missing == IF Has(args, "dependencies") THEN firstMissing(args.dependencies, 1) ELSE 0
    IN  IF missing # 0
        THEN Throw("create_task", args.id, None, "DependencyNotFound", missing)
        ELSE NoThrow

\* index.ts:99-110
create_taskThrows(args) ==
    LET missing == IF Has(args, "dependencies") THEN firstMissing(args.dependencies, 1) ELSE 0
    IN  IF Exists(args.id)
        THEN Throw("create_task", args.id, None, "DuplicateId", 0)
        ELSE IF missing # 0
        THEN Throw("create_task", args.id, None, "DependencyNotFound", missing)
        ELSE NoThrow

\* index.ts:112-117  const task: Task = { id, description, status, dependencies }
NewTask(args) ==
    IF Has(args, "dependencies")
    THEN [id |-> args.id, description |-> args.description, status |-> "pending",
          dependencies |-> args.dependencies]
    ELSE [id |-> args.id, description |-> args.description, status |-> "pending"]

\* Mutant of create_task: the task is stored before its dependencies are
\* validated.
create_task_StoresBeforeValidating(args) ==
    IF create_taskThrows(args) = NoThrow
    THEN Edited((args.id :> NewTask(args)) @@ tasks, InsertKey(keys, args.id),
                Reply("create_task", args.id, None, args.id, <<>>))
    ELSE IF create_taskThrows(args).error = "DependencyNotFound"
    THEN /\ tasks' = (args.id :> NewTask(args)) @@ tasks
         /\ keys' = InsertKey(keys, args.id)
         /\ last' = create_taskThrows(args)
         /\ UNCHANGED <<file, writable, nEdits, callers, created>>
    ELSE Rejected(create_taskThrows(args))

\* index.ts:90-129
create_task(args) ==
    IF create_taskThrows(args) # NoThrow
    THEN Rejected(create_taskThrows(args))
    ELSE Edited((args.id :> NewTask(args)) @@ tasks, InsertKey(keys, args.id),
                Reply("create_task", args.id, None, args.id, <<>>))

\* Mutant of Assigned: the assignee is not recorded.
Assigned_NoAssignee(task, instance_id) ==
    [status |-> "in_progress"] @@ task

\* Mutant of Assigned: the task goes straight to completed.
Assigned_SkipsInProgress(task, instance_id) ==
    [status |-> "completed", assignedTo |-> instance_id] @@ task

\* index.ts:152-153
Assigned(task, instance_id) ==
    [status |-> "in_progress", assignedTo |-> instance_id] @@ task

\* Mutant of get_next_task: saveTasks() is called when no task is available.
get_next_task_SavesWhenIdle(args) ==
    LET availableTask == FindAvailable(tasks, keys)
    IN  IF availableTask = None
        THEN /\ Committed(tasks, keys,
                          Reply("get_next_task", None, args.instance_id, NoTasks, <<>>))
             /\ UNCHANGED nEdits
        ELSE /\ Committed(
                    [tasks EXCEPT ![availableTask] = Assigned(@, args.instance_id)],
                    keys,
                    Reply("get_next_task", None, args.instance_id, availableTask, <<>>))
             /\ UNCHANGED nEdits

\* Mutant of get_next_task: the assignment is not saved.
get_next_task_NoSave(args) ==
    LET availableTask == FindAvailable(tasks, keys)
    IN  IF availableTask = None
        THEN /\ last' = Reply("get_next_task", None, args.instance_id, NoTasks, <<>>)
             /\ UNCHANGED <<tasks, keys, file, writable, nEdits, callers, created>>
        ELSE /\ tasks' = [tasks EXCEPT ![availableTask] = Assigned(@, args.instance_id)]
             /\ last' = Reply("get_next_task", None, args.instance_id, availableTask, <<>>)
             /\ UNCHANGED <<keys, file, writable, nEdits, callers, created>>

\* index.ts:131-164
get_next_task(args) ==
    LET availableTask == FindAvailable(tasks, keys)
    IN  IF availableTask = None
        THEN /\ last' = Reply("get_next_task", None, args.instance_id, NoTasks, <<>>)
             /\ UNCHANGED <<tasks, keys, file, writable, nEdits, callers, created>>
        ELSE /\ Committed(
                    [tasks EXCEPT ![availableTask] = Assigned(@, args.instance_id)],
                    keys,
                    Reply("get_next_task", None, args.instance_id, availableTask, <<>>))
             /\ UNCHANGED nEdits

\* index.ts:175-182
complete_taskThrows(args) ==
    IF ~Exists(args.task_id)
    THEN Throw("complete_task", args.task_id, args.instance_id, "TaskNotFound", 0)
    ELSE IF NotAssignedTo(tasks[args.task_id], args.instance_id)
    THEN Throw("complete_task", args.task_id, args.instance_id, "NotOwner", 0)
    ELSE NoThrow

\* Mutant of Completed: the result is not recorded.
Completed_NoResult(task, result) ==
    [status |-> "completed"] @@ task

\* index.ts:184-185
Completed(task, result) ==
    [status |-> "completed", result |-> result] @@ task

\* index.ts:166-206
complete_task(args) ==
    IF complete_taskThrows(args) # NoThrow
    THEN Rejected(complete_taskThrows(args))
    ELSE LET ts == [tasks EXCEPT ![args.task_id] = Completed(@, args.result)]
         IN  /\ Committed(ts, keys,
                          Reply("complete_task", args.task_id, args.instance_id,
                                args.task_id, UnlockedTasks(args.task_id, ts, keys)))
             /\ UNCHANGED nEdits

\* Mutant of update_taskThrows: the status of the task is not tested.
update_taskThrows_AnyStatus(args) ==
    LET check == IF Has(args, "dependencies")
                 THEN validateDependencies(args.task_id, args.dependencies, 1, {})
                 ELSE [error |-> "none", at |-> 0, expanded |-> <<>>]
    IN  IF ~Exists(args.task_id)
        THEN Throw("update_task", args.task_id, None, "TaskNotFound", 0)
        ELSE IF check.error # "none"
        THEN Throw("update_task", args.task_id, None, check.error, check.at)
        ELSE NoThrow

\* test-instance.js:133-158
update_taskThrows(args) ==
    LET check == IF Has(args, "dependencies")
                 THEN validateDependencies(args.task_id, args.dependencies, 1, {})
                 ELSE [error |-> "none", at |-> 0, expanded |-> <<>>]
    IN  IF ~Exists(args.task_id)
        THEN Throw("update_task", args.task_id, None, "TaskNotFound", 0)
        ELSE IF tasks[args.task_id].status # "pending"
        THEN Throw("update_task", args.task_id, None, "InvalidState", 0)
        ELSE IF check.error # "none"
        THEN Throw("update_task", args.task_id, None, check.error, check.at)
        ELSE NoThrow

\* test-instance.js:159-164: `if (dependencies)` holds for every array, the
\* empty one included; `if (description)` fails for the empty string.
Updated(task, args) ==
    LET withDeps == IF Has(args, "dependencies")
                    THEN [dependencies |-> args.dependencies] @@ task
                    ELSE task
    IN  IF Has(args, "description") /\ args.description # ""
        THEN [description |-> args.description] @@ withDeps
        ELSE withDeps

\* test-instance.js:130-169
update_task(args) ==
    IF update_taskThrows(args) # NoThrow
    THEN Rejected(update_taskThrows(args))
    ELSE Edited([tasks EXCEPT ![args.task_id] = Updated(@, args)], keys,
                Reply("update_task", args.task_id, None, args.task_id, <<>>))

\* Mutant of delete_taskThrows: only a pending task may be deleted.
delete_taskThrows_PendingOnly(args) ==
    IF ~Exists(args.task_id)
    THEN Throw("delete_task", args.task_id, None, "TaskNotFound", 0)
    ELSE IF tasks[args.task_id].status # "pending"
    THEN Throw("delete_task", args.task_id, None, "InvalidState", 0)
    ELSE IF Len(dependentTasks(args.task_id)) > 0
    THEN Throw("delete_task", args.task_id, None, "HasDependents", 0)
    ELSE NoThrow

\* Mutant of delete_taskThrows: the dependents are not looked for.
delete_taskThrows_NoDependentsCheck(args) ==
    IF ~Exists(args.task_id)
    THEN Throw("delete_task", args.task_id, None, "TaskNotFound", 0)
    ELSE NoThrow

\* test-instance.js:174-188
delete_taskThrows(args) ==
    IF ~Exists(args.task_id)
    THEN Throw("delete_task", args.task_id, None, "TaskNotFound", 0)
    ELSE IF Len(dependentTasks(args.task_id)) > 0
    THEN Throw("delete_task", args.task_id, None, "HasDependents", 0)
    ELSE NoThrow

\* test-instance.js:171-194
delete_task(args) ==
    IF delete_taskThrows(args) # NoThrow
    THEN Rejected(delete_taskThrows(args))
    ELSE Edited([k \in DOMAIN tasks \ {args.task_id} |-> tasks[k]],
                RemoveKey(keys, args.task_id),
                Reply("delete_task", args.task_id, None, args.task_id, <<>>))

\* Requests that a handler rejects with one and the same response lead to one
\* and the same state: of those, one request per response is served, together
\* with every request the handler accepts.
Served(requests, Throws(_)) ==
    LET outcome == {<<Throws(a), a>> : a \in requests}
        thrown == {o[1] : o \in outcome} \ {NoThrow}
    IN  {o[2] : o \in {x \in outcome : x[1] = NoThrow}}
        \cup {(CHOOSE o \in outcome : o[1] = r)[2] : r \in thrown}

\* A run is followed up to its first rejected request: a rejected request
\* changes nothing but `last`, so whatever can follow it can follow the state
\* it was issued in.
Serving == last.error = "none"

\* The façade serves one request at a time, to completion.
Next ==
    \/ Serving /\ \E args \in Served(CreateArgs, create_taskThrows) : create_task(args)
    \/ Serving /\ \E args \in Served(UpdateArgs, update_taskThrows) : update_task(args)
    \/ Serving /\ \E args \in Served(DeleteArgs, delete_taskThrows) : delete_task(args)
    \/ Serving /\ \E args \in GetNextArgs : get_next_task(args)
    \/ Serving /\ \E args \in Served(CompleteArgs, complete_taskThrows) : complete_task(args)

Spec == Init /\ [][Next]_vars

\* ------------------------------------------------------- storage faults
\* writeFileSync (index.ts:57) starts to throw, e.g. the disk is full or the
\* file has become read-only: saveTasks() catches and logs it.
DiskFails ==
    /\ writable
    /\ writable' = FALSE
    /\ UNCHANGED <<tasks, keys, file, last, nEdits, callers, created>>

\* writeFileSync succeeds again.
DiskRecovers ==
    /\ ~writable
    /\ writable' = TRUE
    /\ UNCHANGED <<tasks, keys, file, last, nEdits, callers, created>>

\* The server on a disk that may refuse writes.
NextFaults ==
    \/ Next
    \/ Serving /\ DiskFails
    \/ Serving /\ DiskRecovers

\* The state after main(), with the callers of a run with storage faults.
InitFaults ==
    /\ tasks = <<>>
    /\ keys = <<>>
    /\ writable = TRUE
    /\ file = <<>>
    /\ last = Reply("main", None, None, None, <<>>)
    /\ nEdits = 0
    /\ callers \in FaultPopulations
    /\ created = <<>>

SpecFaults == InitFaults /\ [][NextFaults]_vars

\* ------------------------------------------------------------- restarts
\* The content of the tasks file is the list of the members of the JSON
\* object, in the order of the text.  A text that is not JSON is a content
\* with a member that JSON.parse rejects.
NotJson == << <<"", [syntaxError |-> TRUE]>> >>

\* A JSON object whose member is not a Task: its status is none of
\* 'pending' | 'in_progress' | 'completed' (index.ts:24).
NotTasks == << <<"a", [id |-> "a", description |-> "d1", status |-> "done"]>> >>

\* What the file may hold after something else than saveTasks() wrote it.
DamagedContents == {NotJson, NotTasks}

\* JSON.parse(data) does not throw.
JsonParses(data) == \A i \in 1..Len(data) : ~Has(data[i][2], "syntaxError")

\* Mutant of ParseTasks: a loaded task that was in_progress is pending and
\* unassigned again.
ParseTasks_ForgetsAssignment(data) ==
    [k \in {data[i][1] : i \in 1..Len(data)} |->
        LET task == data[CHOOSE i \in 1..Len(data) : data[i][1] = k][2]
        IN  IF task.status = "in_progress"
            THEN [f \in DOMAIN task \ {"assignedTo"} |->
                     IF f = "status" THEN "pending" ELSE task[f]]
            ELSE task]

\* JSON.parse(data): the object with the members of the text.
ParseTasks(data) ==
    [k \in {data[i][1] : i \in 1..Len(data)} |->
        data[CHOOSE i \in 1..Len(data) : data[i][1] = k][2]]

\* The own-property order of JSON.parse(data): the members are defined one
\* after the other, from the i-th on.
RECURSIVE ParseKeys(_, _, _)
ParseKeys(data, i, ks) ==
    IF i > Len(data) THEN ks
    ELSE ParseKeys(data, i + 1, InsertKey(ks, data[i][1]))

\* The process stops and main() runs again (index.ts:338-348): loadTasks()
\* reads the file, which exists, and assigns JSON.parse(data) to `tasks`; when
\* JSON.parse throws, it logs and calls process.exit(1).
loadTasks ==
    IF JsonParses(file)
    THEN /\ tasks' = ParseTasks(file)
         /\ keys' = ParseKeys(file, 1, <<>>)
         /\ created' = CreationOrder(ParseKeys(file, 1, <<>>))
         /\ last' = Reply("main", None, None, None, <<>>)
         /\ UNCHANGED <<file, writable, nEdits, callers>>
    ELSE /\ tasks' = <<>>
         /\ keys' = <<>>
         /\ created' = <<>>
         /\ last' = Throw("main", None, None, "StorageCorrupt", 0)
         /\ UNCHANGED <<file, writable, nEdits, callers>>

\* Something else than the server writes the tasks file.
FileDamaged ==
    \E data \in DamagedContents :
        /\ file' = data
        /\ UNCHANGED <<tasks, keys, writable, last, nEdits, callers, created>>

\* The server with restarts, on a disk that may refuse writes and a file
\* that may be damaged.
NextRestarts ==
    \/ NextFaults
    \/ Serving /\ loadTasks
    \/ Serving /\ FileDamaged

SpecRestarts == InitFaults /\ [][NextRestarts]_vars

\* --------------------------------------------------- production server
\* The request handler of src/src/index.ts: its switch has the cases
\* create_task, get_next_task, complete_task, get_task_status and
\* get_task_details, and a default that throws.

DetailsArgs == {[task_id |-> i] : i \in callers.ids}

\* index.ts:208-216  JSON.stringify(Object.values(tasks), null, 2)
get_task_status ==
    /\ last' = Reply("get_task_status", None, None,
                     [i \in 1..Len(keys) |-> tasks[keys[i]]], <<>>)
    /\ UNCHANGED <<tasks, keys, file, writable, nEdits, callers, created>>

\* Mutant of get_task_details: an id that is not stored is answered without
\* an error.
get_task_details_NoNotFound(args) ==
    /\ last' = IF Exists(args.task_id)
               THEN Reply("get_task_details", args.task_id, None, tasks[args.task_id], <<>>)
               ELSE Reply("get_task_details", args.task_id, None, None, <<>>)
    /\ UNCHANGED <<tasks, keys, file, writable, nEdits, callers, created>>

\* index.ts:218-233
get_task_details(args) ==
    IF ~Exists(args.task_id)
    THEN Rejected(Throw("get_task_details", args.task_id, None, "TaskNotFound", 0))
    ELSE /\ last' = Reply("get_task_details", args.task_id, None, tasks[args.task_id], <<>>)
         /\ UNCHANGED <<tasks, keys, file, writable, nEdits, callers, created>>

\* index.ts:235-236  default: throw new McpError(MethodNotFound, "Unknown tool")
UnknownToolThrows(name) == Throw(name, None, None, "UnknownOperation", 0)

UnknownTool(name) == Rejected(UnknownToolThrows(name))

\* index.ts:88-237  switch (request.params.name)
CallTool(name, args) ==
    CASE name = "create_task" -> create_task(args)
      [] name = "get_next_task" -> get_next_task(args)
      [] name = "complete_task" -> complete_task(args)
      [] name = "get_task_status" -> get_task_status
      [] name = "get_task_details" -> get_task_details(args)
      [] OTHER -> UnknownTool(name)

\* The production server serves one request at a time; callers also send it
\* the update_task and delete_task requests of the documentation.
NextProduction ==
    \/ Serving /\ \E args \in Served(CreateArgs, create_taskThrows) :
                      CallTool("create_task", args)
    \/ Serving /\ \E args \in GetNextArgs : CallTool("get_next_task", args)
    \/ Serving /\ \E args \in Served(CompleteArgs, complete_taskThrows) :
                      CallTool("complete_task", args)
    \/ Serving /\ CallTool("get_task_status", <<>>)
    \/ Serving /\ \E args \in DetailsArgs : CallTool("get_task_details", args)
    \/ Serving /\ \E args \in Served(UpdateArgs, LAMBDA a : UnknownToolThrows("update_task")) :
                      CallTool("update_task", args)
    \/ Serving /\ \E args \in Served(DeleteArgs, LAMBDA a : UnknownToolThrows("delete_task")) :
                      CallTool("delete_task", args)

SpecProduction == Init /\ [][NextProduction]_vars

\* ------------------------------------------- production server, for ever
\* The production server with workers that go on: the server answers a
\* rejected request and serves the next one.
InitLive ==
    /\ tasks = <<>>
    /\ keys = <<>>
    /\ writable = TRUE
    /\ file = <<>>
    /\ last = Reply("main", None, None, None, <<>>)
    /\ nEdits = 0
    /\ callers \in LivePopulations
    /\ created = <<>>

NextLive ==
    \/ \E args \in Served(CreateArgs, create_taskThrows) : CallTool("create_task", args)
    \/ \E args \in GetNextArgs : CallTool("get_next_task", args)
    \/ \E args \in Served(CompleteArgs, complete_taskThrows) : CallTool("complete_task", args)

\* The instance that holds task t calls complete_task for it
\* (coordination-test.js: each worker completes the task it was given).
OwnerCompletes(t, args) ==
    /\ args.task_id = t
    /\ Exists(t)
    /\ tasks[t].status = "in_progress"
    /\ tasks[t].assignedTo = args.instance_id
    /\ CallTool("complete_task", args)

\* Instances keep calling get_next_task, and the holder of a task calls
\* complete_task for it.
Fairness ==
    /\ WF_vars(\E args \in GetNextArgs : CallTool("get_next_task", args))
    /\ \A t \in LiveIds : WF_vars(\E args \in CompleteArgs : OwnerCompletes(t, args))

SpecLive == InitLive /\ [][NextLive]_vars /\ Fairness

\* ------------------------------------------------------- graph notions
\* The ids a task lists as dependencies, as a set.
DepsOf(ts, t) ==
    IF Has(ts[t], "dependencies")
    THEN {ts[t].dependencies[i] : i \in 1..Len(ts[t].dependencies)}
    ELSE {}

\* The ids reachable from the ids of `seen` by following dependencies edges.
RECURSIVE ReachFrom(_, _, _)
ReachFrom(ts, frontier, seen) ==
    LET next == UNION {DepsOf(ts, t) : t \in frontier \cap DOMAIN ts} \ seen
    IN  IF next = {} THEN seen ELSE ReachFrom(ts, next, seen \cup next)

Reach(ts, S) == ReachFrom(ts, S, S)

\* No task is reachable from itself.
Acyclic(ts) == \A t \in DOMAIN ts : t \notin Reach(ts, DepsOf(ts, t))

\* Every dependency of t is stored and completed.
Satisfied(ts, t) ==
    \A d \in DepsOf(ts, t) : d \in DOMAIN ts /\ ts[d].status = "completed"

\* The store and the persisted snapshot are as they were.
StoreUnchanged == tasks' = tasks /\ keys' = keys /\ file' = file

\* The ids of a list.
Range(seq) == {seq[i] : i \in 1..Len(seq)}

\* ---------------------------------------------------------------- claims

\* C1: a get_next_task call never returns a task that already has an
\* assignee (so no task is handed out twice while it exists), and once a
\* task's assignedTo is set it keeps that value in every later state in which
\* the task still exists.
C1_ExclusiveAssignment ==
    [][\A t \in DOMAIN tasks :
          /\ (last'.op = "get_next_task" /\ last'.ret = t)
                => ~Has(tasks[t], "assignedTo")
          /\ (Has(tasks[t], "assignedTo") /\ t \in DOMAIN tasks')
                => /\ Has(tasks'[t], "assignedTo")
                   /\ tasks'[t].assignedTo = tasks[t].assignedTo]_vars

\* C1 witness: two workers called get_next_task and hold different tasks.
C1_Witness ==
    /\ last.op = "get_next_task"
    /\ \E t, u \in DOMAIN tasks :
          /\ t # u
          /\ last.ret = u
          /\ tasks[t].status = "in_progress" /\ tasks[t].assignedTo = "w1"
          /\ tasks[u].status = "in_progress" /\ tasks[u].assignedTo = "w2"

\* C2: the task a get_next_task call returns was pending and had every one
\* of its dependencies stored and completed when the call was made; and the
\* call answers 'no tasks' only if no pending task is without dependencies
\* (list absent or empty).
C2_OnlyAvailableTasksAreReturned ==
    [][last'.op = "get_next_task" =>
          /\ \A t \in DOMAIN tasks :
                last'.ret = t => tasks[t].status = "pending" /\ Satisfied(tasks, t)
          /\ last'.ret = NoTasks =>
                \A t \in DOMAIN tasks :
                    ~(tasks[t].status = "pending" /\ DepsOf(tasks, t) = {})]_vars

\* C2 witness: get_next_task returned a task that has dependencies.
C2_Witness ==
    /\ last.op = "get_next_task"
    /\ last.ret \in DOMAIN tasks
    /\ DepsOf(tasks, last.ret) # {}

\* C3: in every reachable state the dependency relation over the stored
\* tasks is acyclic.
C3_Acyclic == Acyclic(tasks)

\* C4: an update_task(T, deps) on a pending task T, every id of deps stored,
\* with T reachable from some member of deps, fails with CycleDetected.
C4_UpdateRejectsEveryCycle ==
    [][\A args \in UpdateArgs :
          ( /\ last'.op = "update_task"
            /\ Has(args, "dependencies")
            /\ args.task_id \in DOMAIN tasks
            /\ tasks[args.task_id].status = "pending"
            /\ Range(args.dependencies) \subseteq DOMAIN tasks
            /\ args.task_id \in Reach(tasks, Range(args.dependencies))
            /\ update_task(args) )
          => last'.error = "CycleDetected"]_vars

\* C5: after a successful complete_task(T, X, r), unlocked_tasks holds, once
\* each, exactly the tasks that are pending, list T among their dependencies
\* and have every dependency stored and completed.
C5_UnlockedExactly ==
    (last.op = "complete_task" /\ last.error = "none") =>
        /\ Range(last.unlocked) =
              {t \in DOMAIN tasks :
                  /\ tasks[t].status = "pending"
                  /\ last.task_id \in DepsOf(tasks, t)
                  /\ Satisfied(tasks, t)}
        /\ Cardinality(Range(last.unlocked)) = Len(last.unlocked)

\* C5 witness: a complete_task succeeded while a pending task lists the
\* completed task next to a dependency that is not completed, and is not
\* reported as unlocked.
C5_Witness ==
    /\ last.op = "complete_task" /\ last.error = "none"
    /\ \E t \in DOMAIN tasks :
          /\ tasks[t].status = "pending"
          /\ last.task_id \in DepsOf(tasks, t)
          /\ ~Satisfied(tasks, t)
          /\ t \notin Range(last.unlocked)

\* C6: complete_task is accepted only for a task that is in_progress, and no
\* operation changes the record of a completed task.
C6_ResultSetOnce ==
    [][/\ (last'.op = "complete_task" /\ last'.error = "none" /\ last' # last)
             => tasks[last'.task_id].status = "in_progress"
       /\ \A t \in DOMAIN tasks :
             (tasks[t].status = "completed" /\ t \in DOMAIN tasks')
                => tasks'[t] = tasks[t]]_vars

\* C7: complete_task(T, X, r) on a stored task whose assignedTo is not X
\* (absent, or another instance) fails with NotOwner and changes no task.
C7_NotOwnerRejected ==
    [][\A args \in CompleteArgs :
          ( /\ last'.op = "complete_task"
            /\ args.task_id \in DOMAIN tasks
            /\ (Has(tasks[args.task_id], "assignedTo")
                   => tasks[args.task_id].assignedTo # args.instance_id)
            /\ complete_task(args) )
          => last'.error = "NotOwner" /\ StoreUnchanged]_vars

\* C7 witness: complete_task by w2 was rejected with NotOwner, once for a
\* task w1 has completed; a pending task is in the store as well.
C7_Witness ==
    /\ last.op = "complete_task" /\ last.error = "NotOwner"
    /\ last.instance_id = "w2"
    /\ tasks[last.task_id].status = "completed"
    /\ tasks[last.task_id].assignedTo = "w1"
    /\ \E t \in DOMAIN tasks : tasks[t].status = "pending"

C9_FailFast ==
    [][last'.error \in {"DuplicateId", "DependencyNotFound", "CycleDetected",
                        "TaskNotFound", "InvalidState", "NotOwner", "HasDependents"}
          => StoreUnchanged]_vars

\* C9 witness: update_task rejected the second id of a dependency list.
C9_Witness ==
    /\ last.op = "update_task"
    /\ last.error \in {"DependencyNotFound", "CycleDetected"}
    /\ last.at = 2
    /\ tasks[last.task_id].status = "pending"

\* C10: delete_task(T) fails with HasDependents and changes nothing whenever
\* another stored task lists T in its dependencies.
C10_DeleteWithDependentsRejected ==
    [][\A args \in DeleteArgs :
          ( /\ last'.op = "delete_task"
            /\ \E u \in DOMAIN tasks \ {args.task_id} :
                  args.task_id \in DepsOf(tasks, u)
            /\ delete_task(args) )
          => last'.error = "HasDependents" /\ StoreUnchanged]_vars

\* C10 witness: delete_task was rejected for a completed task that a
\* completed task lists.
C10_Witness ==
    /\ last.op = "delete_task" /\ last.error = "HasDependents"
    /\ tasks[last.task_id].status = "completed"
    /\ \E u \in DOMAIN tasks \ {last.task_id} :
          /\ last.task_id \in DepsOf(tasks, u)
          /\ tasks[u].status = "completed"

\* C11: delete_task(T) on a stored task T that no stored task lists as a
\* dependency succeeds whatever T's status, removes T and leaves every other
\* task record, and the order of the remaining tasks, as they were.
C11_DeleteWithoutDependents ==
    [][\A args \in DeleteArgs :
          ( /\ args.task_id \in DOMAIN tasks
            /\ \A u \in DOMAIN tasks : args.task_id \notin DepsOf(tasks, u)
            /\ delete_task(args) )
          => /\ last'.error = "none"
             /\ DOMAIN tasks' = DOMAIN tasks \ {args.task_id}
             /\ \A u \in DOMAIN tasks' : tasks'[u] = tasks[u]
             /\ keys' = RemoveKey(keys, args.task_id)]_vars

\* C11 witness: a chain was deleted from its end: delete_task succeeded, and
\* what remains is a completed task, itself with a dependency, that no task
\* depends on any more.
C11_Witness ==
    /\ last.op = "delete_task" /\ last.error = "none"
    /\ last.task_id \notin DOMAIN tasks
    /\ \E u \in DOMAIN tasks :
          /\ tasks[u].status = "completed"
          /\ DepsOf(tasks, u) # {}
          /\ \A v \in DOMAIN tasks : u \notin DepsOf(tasks, v)

C13_AssignedIffStarted ==
    \A t \in DOMAIN tasks :
        Has(tasks[t], "assignedTo") <=> tasks[t].status \in {"in_progress", "completed"}

\* C13 witness: a pending, an in_progress and a completed task are stored
\* together.
C13_Witness ==
    \E t, u, v \in DOMAIN tasks :
        /\ tasks[t].status = "pending"
        /\ tasks[u].status = "in_progress"
        /\ tasks[v].status = "completed"

\* C14: a stored task has a result exactly when it is completed.
C14_ResultIffCompleted ==
    \A t \in DOMAIN tasks :
        Has(tasks[t], "result") <=> tasks[t].status = "completed"

\* C14 witness: a complete_task succeeded while another task is in_progress.
C14_Witness ==
    /\ last.op = "complete_task" /\ last.error = "none"
    /\ Has(tasks[last.task_id], "result")
    /\ \E u \in DOMAIN tasks : tasks[u].status = "in_progress"

\* C15: across every step, a task that stays in the store keeps its status or
\* moves from pending to in_progress or from in_progress to completed.
C15_StatusMovesForward ==
    [][\A t \in DOMAIN tasks \cap DOMAIN tasks' :
          \/ tasks'[t].status = tasks[t].status
          \/ tasks[t].status = "pending" /\ tasks'[t].status = "in_progress"
          \/ tasks[t].status = "in_progress" /\ tasks'[t].status = "completed"]_vars

\* C15 witness: a complete_task succeeded and left three completed tasks.
C15_Witness ==
    /\ last.op = "complete_task" /\ last.error = "none"
    /\ Cardinality(DOMAIN tasks) = 3
    /\ \A t \in DOMAIN tasks : tasks[t].status = "completed"

\* The place of an id in a list without repetitions.
Position(seq, x) == CHOOSE i \in 1..Len(seq) : seq[i] = x

\* C16: the task a get_next_task call returns was created before every other
\* task that was pending with every dependency completed when the call was
\* made.
C16_EarliestCreatedFirst ==
    [][(last'.op = "get_next_task" /\ last'.ret \in DOMAIN tasks) =>
          \A u \in DOMAIN tasks :
              (tasks[u].status = "pending" /\ Satisfied(tasks, u))
                 => Position(created, last'.ret) <= Position(created, u)]_vars

\* C18: update_task on a stored task that is in_progress or completed fails
\* with InvalidState and changes nothing; and across every step a task that
\* has an assignee and stays in the store keeps its description and its
\* dependencies.
C18_UpdateOnlyWhilePending ==
    [][/\ \A args \in UpdateArgs :
             ( /\ args.task_id \in DOMAIN tasks
               /\ tasks[args.task_id].status \in {"in_progress", "completed"}
               /\ update_task(args) )
             => last'.error = "InvalidState" /\ StoreUnchanged
       /\ \A t \in DOMAIN tasks \cap DOMAIN tasks' :
             Has(tasks[t], "assignedTo")
                => /\ tasks'[t].description = tasks[t].description
                   /\ Has(tasks'[t], "dependencies") = Has(tasks[t], "dependencies")
                   /\ Has(tasks[t], "dependencies")
                         => tasks'[t].dependencies = tasks[t].dependencies]_vars

\* C18 witness: update_task was rejected with InvalidState for a task that is
\* in_progress, next to a completed task.
C18_Witness ==
    /\ last.op = "update_task" /\ last.error = "InvalidState"
    /\ tasks[last.task_id].status = "in_progress"
    /\ \E u \in DOMAIN tasks : tasks[u].status = "completed"

\* C19: update_task(T, deps) on a pending task T, every id of deps stored and
\* T among them, fails with CycleDetected and leaves the store as it was.
C19_SelfDependencyRejected ==
    [][\A args \in UpdateArgs :
          ( /\ Has(args, "dependencies")
            /\ args.task_id \in DOMAIN tasks
            /\ tasks[args.task_id].status = "pending"
            /\ Range(args.dependencies) \subseteq DOMAIN tasks
            /\ args.task_id \in Range(args.dependencies)
            /\ update_task(args) )
          => last'.error = "CycleDetected" /\ StoreUnchanged]_vars

\* C19 witness: update_task was rejected with CycleDetected for the only task
\* of the store, so that the rejected list named the task itself.
C19_Witness ==
    /\ last.op = "update_task" /\ last.error = "CycleDetected"
    /\ DOMAIN tasks = {last.task_id}

\* C17: a get_next_task call made when no stored task is pending with every
\* dependency completed returns the 'no tasks' value without an error, and
\* leaves the store and the persisted snapshot as they were, also when the
\* snapshot is behind the store and the disk accepts writes.
C17_NoTasksChangesNothing ==
    [][\A args \in GetNextArgs :
          ( /\ \A t \in DOMAIN tasks :
                  ~(tasks[t].status = "pending" /\ Satisfied(tasks, t))
            /\ get_next_task(args) )
          => /\ last'.ret = NoTasks
             /\ last'.error = "none"
             /\ StoreUnchanged]_vars

\* C17 witness: get_next_task answered 'no tasks' while a pending task waits
\* for a dependency, the snapshot is behind the store and the disk accepts
\* writes.
C17_Witness ==
    /\ last.op = "get_next_task" /\ last.ret = NoTasks
    /\ \E t \in DOMAIN tasks : tasks[t].status = "pending" /\ ~Satisfied(tasks, t)
    /\ writable
    /\ file # Stringify(tasks, keys)

\* A step in which a request changed the store or assigned or completed a
\* task; a disk step changes `writable`.
MutatingStep ==
    /\ writable' = writable
    /\ last'.error = "none"
    /\ \/ last'.op \in {"create_task", "update_task", "delete_task", "complete_task"}
       \/ last'.op = "get_next_task" /\ last'.ret # NoTasks

\* C20: after a mutating request served while the disk accepts writes, the
\* persisted snapshot is the whole store in its enumeration order; and no
\* step writes anything else than the whole store.
C20_SnapshotIsWholeStore ==
    [][/\ (MutatingStep /\ writable) => file' = Stringify(tasks', keys')
       /\ file' # file => file' = Stringify(tasks', keys')]_vars

\* C20 witness: two tasks were created and a complete_task was served while
\* the disk accepts writes; the snapshot holds both tasks as the store has
\* them.
C20_Witness ==
    /\ last.op = "complete_task" /\ last.error = "none"
    /\ writable
    /\ Len(file) = 2
    /\ file = Stringify(tasks, keys)
    /\ nEdits = 2

\* The store in which task t has the dependency list deps.
WithDependencies(ts, t, deps) == [ts EXCEPT ![t] = [dependencies |-> deps] @@ @]

\* C26: update_task(T, deps) on a pending task T, every id of deps stored,
\* fails with CycleDetected only if the proposed list closes a cycle, and
\* succeeds whenever T is not reachable from the proposed ids.
C26_CycleDetectedOnlyForCycles ==
    [][\A args \in UpdateArgs :
          ( /\ Has(args, "dependencies")
            /\ args.task_id \in DOMAIN tasks
            /\ tasks[args.task_id].status = "pending"
            /\ Range(args.dependencies) \subseteq DOMAIN tasks
            /\ update_task(args) )
          => /\ last'.error = "CycleDetected"
                   => ~Acyclic(WithDependencies(tasks, args.task_id, args.dependencies))
             /\ args.task_id \notin Reach(tasks, Range(args.dependencies))
                   => last'.error = "none"]_vars

\* C27: every stored task that is in_progress or completed has each of its
\* dependencies stored and completed.
C27_StartedAfterDependencies ==
    \A t \in DOMAIN tasks :
        tasks[t].status \in {"in_progress", "completed"} => Satisfied(tasks, t)

\* C27 witness: a task with two different dependencies is in_progress.
C27_Witness ==
    \E t \in DOMAIN tasks :
        /\ tasks[t].status = "in_progress"
        /\ Cardinality(DepsOf(tasks, t)) = 2

C25_UpdateAndDeleteAreServed ==
    [][/\ \A args \in UpdateArgs :
             ( /\ ~Has(args, "dependencies")
               /\ args.task_id \in DOMAIN tasks
               /\ tasks[args.task_id].status = "pending"
               /\ CallTool("update_task", args) )
             => /\ last'.error = "none"
                /\ tasks'[args.task_id] = Updated(tasks[args.task_id], args)
       /\ \A args \in DeleteArgs :
             ( /\ args.task_id \in DOMAIN tasks
               /\ \A u \in DOMAIN tasks : args.task_id \notin DepsOf(tasks, u)
               /\ CallTool("delete_task", args) )
             => /\ last'.error = "none"
                /\ args.task_id \notin DOMAIN tasks']_vars

\* C28: in the production server no stored task is reachable from itself
\* along dependencies.
C28_ProductionAcyclic ==
    \A t \in DOMAIN tasks :
        \A d \in DepsOf(tasks, t) : t \notin Reach(tasks, {d})

\* C28 witness: create_task stored the third task of a chain of
\* dependencies.
C28_Witness ==
    /\ last.op = "create_task" /\ last.error = "none"
    /\ \E u, v \in DOMAIN tasks :
          /\ u \in DepsOf(tasks, last.task_id)
          /\ v \in DepsOf(tasks, u)
          /\ Cardinality({last.task_id, u, v}) = 3

C21_FailedSaveIsReported ==
    [][~writable =>
          /\ \A args \in CreateArgs :
                (create_taskThrows(args) = NoThrow /\ create_task(args))
                   => last'.error = "StorageUnavailable" /\ args.id \in DOMAIN tasks'
          /\ \A args \in GetNextArgs :
                (FindAvailable(tasks, keys) # None /\ get_next_task(args))
                   => /\ last'.error = "StorageUnavailable"
                      /\ tasks'[FindAvailable(tasks, keys)].status = "in_progress"
          /\ \A args \in CompleteArgs :
                (complete_taskThrows(args) = NoThrow /\ complete_task(args))
                   => /\ last'.error = "StorageUnavailable"
                      /\ tasks'[args.task_id].status = "completed"
          /\ \A args \in UpdateArgs :
                (update_taskThrows(args) = NoThrow /\ update_task(args))
                   => last'.error = "StorageUnavailable"
          /\ \A args \in DeleteArgs :
                (delete_taskThrows(args) = NoThrow /\ delete_task(args))
                   => last'.error = "StorageUnavailable" /\ args.task_id \notin DOMAIN tasks']_vars

\* A stored record has the properties of a Task (index.ts:21-28).
IsTask(id, task) ==
    /\ {"id", "description", "status"} \subseteq DOMAIN task
    /\ DOMAIN task \subseteq {"id", "description", "status", "dependencies",
                              "assignedTo", "result"}
    /\ task.id = id
    /\ task.status \in {"pending", "in_progress", "completed"}

\* The content of the file is a mapping from task ids to tasks.
IsTaskMapping(data) ==
    /\ JsonParses(data)
    /\ \A i \in 1..Len(data) : IsTask(data[i][1], data[i][2])

C23_CorruptContentAborts ==
    [][(loadTasks /\ ~IsTaskMapping(file)) =>
          /\ last'.error = "StorageCorrupt"
          /\ ~Serving']_vars

Available(ts, t) ==
    /\ t \in DOMAIN ts
    /\ ts[t].status = "pending"
    /\ Satisfied(ts, t)

\* C31: every task a successful complete_task reports in unlocked_tasks was
\* not available before the call and is available after it; and a call that
\* makes no task newly available reports none.
C31_UnlockedAreNewlyAvailable ==
    [][\A args \in CompleteArgs :
          (complete_taskThrows(args) = NoThrow /\ complete_task(args))
          => /\ \A t \in Range(last'.unlocked) :
                   ~Available(tasks, t) /\ Available(tasks', t)
             /\ (\A t \in DOMAIN tasks' : Available(tasks', t) => Available(tasks, t))
                   => last'.unlocked = <<>>]_vars

\* Two records agree on an optional property: both lack it, or both have it
\* with one value.
SameProperty(old, new, f) ==
    /\ Has(new, f) = Has(old, f)
    /\ Has(old, f) => new[f] = old[f]

\* C33: a successful update_task leaves the id, status, assignedTo and result
\* of its task, the place of the task in the creation order and every other
\* task as they were; a description it is given replaces the old one; a
\* description or a dependency list it is not given stays as it was; and
\* every stored task has the id it is stored under.
C33_UpdateChangesOnlyItsFields ==
    [][/\ \A args \in UpdateArgs :
             (update_taskThrows(args) = NoThrow /\ update_task(args))
             => /\ DOMAIN tasks' = DOMAIN tasks
                /\ \A u \in DOMAIN tasks \ {args.task_id} : tasks'[u] = tasks[u]
                /\ tasks'[args.task_id].id = tasks[args.task_id].id
                /\ tasks'[args.task_id].status = tasks[args.task_id].status
                /\ SameProperty(tasks[args.task_id], tasks'[args.task_id], "assignedTo")
                /\ SameProperty(tasks[args.task_id], tasks'[args.task_id], "result")
                /\ created' = created
                /\ keys' = keys
                /\ Has(args, "description")
                      => tasks'[args.task_id].description = args.description
                /\ ~Has(args, "description")
                      => tasks'[args.task_id].description = tasks[args.task_id].description
                /\ ~Has(args, "dependencies")
                      => SameProperty(tasks[args.task_id], tasks'[args.task_id], "dependencies")
       /\ \A t \in DOMAIN tasks' : tasks'[t].id = t]_vars

\* ------------------------------------------- update_task on any snapshot
\* The callers of a run that starts from a tasks file the server did not
\* write: three tasks, one worker.
SnapshotPopulations ==
    { [ids |-> {"a", "b", "1"}, instances |-> {"w1"}, results |-> {"r1"},
       descriptions |-> {}] }

\* The member order of such a file.
SnapshotOrder == <<"1", "a", "b">>

\* The pending tasks such a file may hold under the key id: any dependency
\* list over the callers' ids, stored or not, or none.
SnapshotTasks(p, id) ==
    {[id |-> id, description |-> d, status |-> "pending"] : d \in Descriptions}
    \cup {[id |-> id, description |-> d, status |-> "pending", dependencies |-> ds] :
            d \in Descriptions, ds \in DependencyListsOf[p]}

\* The objects loadTasks() may read: JSON.parse(data) is assigned to `tasks`
\* as it is (index.ts:36-38), so the dependencies may form cycles and name
\* ids that are not stored.
Snapshots(p) ==
    UNION {{ts \in [S -> UNION {SnapshotTasks(p, i) : i \in S}] :
               \A i \in S : ts[i] \in SnapshotTasks(p, i)} : S \in SUBSET p.ids}

\* The state after main() ran loadTasks() on such a file.
InitSnapshots ==
    /\ callers \in SnapshotPopulations
    /\ tasks \in Snapshots(callers)
    /\ keys = SelectSeq(SnapshotOrder, Exists)
    /\ writable = TRUE
    /\ file = Stringify(tasks, keys)
    /\ last = Reply("main", None, None, None, <<>>)
    /\ nEdits = 0
    /\ created = keys

\* The callers update the tasks of the snapshot.
NextSnapshots ==
    Serving /\ \E args \in Served(UpdateArgs, update_taskThrows) : update_task(args)

SpecSnapshots == InitSnapshots /\ [][NextSnapshots]_vars

\* No id occurs twice in the sequence.
NoRepetition(seq) == \A i, j \in 1..Len(seq) : seq[i] = seq[j] => i = j

\* C32: whatever the snapshot, cycles and dependencies on missing ids
\* included, and whatever the dependency list given to update_task for a
\* stored pending task, the cycle check ends without exhausting the call
\* stack and goes through the dependencies of each id at most once in the
\* whole call.
C32_EachIdExpandedAtMostOnce ==
    \A args \in UpdateArgs :
        (/\ Has(args, "dependencies")
         /\ Exists(args.task_id)
         /\ tasks[args.task_id].status = "pending")
        => LET check == validateDependencies(args.task_id, args.dependencies, 1, {})
           IN  /\ check.error # "RangeError"
               /\ NoRepetition(check.expanded)

\* C32 witness: update_task was rejected for a cycle on a snapshot that has a
\* cycle and a dependency on an id that is not stored, by a check that went
\* through the dependencies of two ids or more.
C32_Witness ==
    /\ last.op = "update_task"
    /\ last.error = "CycleDetected"
    /\ ~Acyclic(tasks)
    /\ \E t \in DOMAIN tasks : DepsOf(tasks, t) \ DOMAIN tasks # {}
    /\ \E args \in UpdateArgs :
          /\ Has(args, "dependencies")
          /\ update_taskThrows(args) = last
          /\ Len(validateDependencies(args.task_id, args.dependencies, 1, {}).expanded) >= 2

====
